---------------------------- MODULE Spec2Model ----------------------------
(***************************************************************************)
(* Deep Pagination: generatePagination(options) and its helpers.          *)
(*                                                                         *)
(* One call of generatePagination is modelled as a state machine: the     *)
(* options object is chosen in Init, then validateInput, validateJump-    *)
(* Values, generatePaginationArray (simple mode, or one action per        *)
(* iteration of its `for (page = 1; page <= max; page++)` loop) and the   *)
(* construction of the returned object follow.                            *)
(*                                                                         *)
(* Representation of JavaScript values:                                    *)
(*   - a number passed in the options is a pair <<n, d>>, d > 0, standing *)
(*     for n/d, so that non-integers (1.5 = <<3, 2>>) can be passed;      *)
(*   - once validated, numbers are TLA+ integers;                         *)
(*   - a token of `pagination` is [page |-> n] for the number n or        *)
(*     [gap |-> s] for the string s;                                      *)
(*   - arrays are sequences; the operators below keep the source's        *)
(*     0-based indices and read them through At.                          *)
(***************************************************************************)
EXTENDS Integers, Sequences, FiniteSets, TLC

VARIABLES options, pc, error, jumps, pagination, page, result

vars == <<options, pc, error, jumps, pagination, page, result>>

---------------------------------------------------------------------------
(* Bounds of the model *)

MaxPages == 26
MaxPad == 3

---------------------------------------------------------------------------
(* Constants of the program *)

\* the one-character string U+2026 (horizontal ellipsis), written in ASCII here
DEFAULT_GAP == "..."
DEFAULT_JUMP_VALUES == <<50000, 25000, 10000, 5000, 1000, 500, 250, 100, 50, 25, 10, 5, 1>>
DEFAULT_PAD == 2

---------------------------------------------------------------------------
(* JavaScript primitives *)

\* Number.isInteger(x) for a number x = <<n, d>>
IsInteger(x) == x[1] % x[2] = 0

\* x < k for a number x = <<n, d>> and an integer k
NumLess(x, k) == x[1] < k * x[2]

\* the integer value of an integral number x = <<n, d>>
IntValue(x) == x[1] \div x[2]

\* the number n as it is passed in the options
Num(n) == <<n, 1>>

\* a % b of JavaScript for integers a and b > 0: the sign follows the dividend
JsRem(a, b) == IF a >= 0 THEN a % b ELSE 0 - ((0 - a) % b)

\* array[k] with a 0-based index k; only used where the index is in range
At(array, k) == array[k + 1]

\* whether array[k] is an element (not undefined)
Defined(array, k) == k >= 0 /\ k < Len(array)

PageToken(n) == [page |-> n]
GapToken(s) == [gap |-> s]
IsNumber(token) == "page" \in DOMAIN token

\* pagination.indexOf(token) >= 0
Includes(array, token) == \E i \in 1..Len(array) : array[i] = token

\* Array.prototype.reverse
Reverse(array) == [i \in 1..Len(array) |-> array[Len(array) + 1 - i]]

---------------------------------------------------------------------------
(* validateJumpValues (the list holds numbers <<n, d>>) *)

JumpsEmpty(js) == Len(js) = 0

JumpsAllPositiveIntegers(js) ==
    \A i \in 1..Len(js) : IsInteger(js[i]) /\ ~NumLess(js[i], 1)

\* mutant of JumpsDescending: equal neighbours are accepted
JumpsNotAscending(js) ==
    \A i \in 0..(Len(js) - 2) : ~(IntValue(At(js, i)) < IntValue(At(js, i + 1)))

\* the loop of lines 49-53: no i with jumps[i] <= jumps[i + 1]
JumpsDescending(js) ==
    \A i \in 0..(Len(js) - 2) : ~(IntValue(At(js, i)) <= IntValue(At(js, i + 1)))

\* the error validateJumpValues throws, "" when it returns normally
validateJumpValues(js) ==
    IF JumpsEmpty(js) THEN "Jump values must be a non-empty array"
    ELSE IF ~JumpsAllPositiveIntegers(js) THEN "All jump values must be positive integers"
    ELSE IF ~JumpsDescending(js) THEN "Jump values must be sorted in descending order"
    ELSE ""

---------------------------------------------------------------------------
(* validateInput *)

CurrentInvalid(current) == ~IsInteger(current) \/ NumLess(current, 1)
MaxInvalid(max) == ~IsInteger(max) \/ NumLess(max, 1)
CurrentExceedsMax(current, max) == IntValue(current) > IntValue(max)
PadInvalid(pad) == ~IsInteger(pad) \/ NumLess(pad, 0)

\* mutant of validateInput: pad is checked before the order of current and max
validateInputPadFirst(current, max, pad) ==
    IF CurrentInvalid(current) THEN "Current page must be a positive integer"
    ELSE IF MaxInvalid(max) THEN "Max pages must be a positive integer"
    ELSE IF PadInvalid(pad) THEN "Pad must be a non-negative integer"
    ELSE IF CurrentExceedsMax(current, max) THEN "Current page cannot be greater than max pages"
    ELSE ""

\* the error validateInput throws, "" when it returns normally; pad is
\* never undefined here because generatePagination has defaulted it
validateInput(current, max, pad) ==
    IF CurrentInvalid(current) THEN "Current page must be a positive integer"
    ELSE IF MaxInvalid(max) THEN "Max pages must be a positive integer"
    ELSE IF CurrentExceedsMax(current, max) THEN "Current page cannot be greater than max pages"
    ELSE IF PadInvalid(pad) THEN "Pad must be a non-negative integer"
    ELSE ""

---------------------------------------------------------------------------
(* findLowerValuesFor *)

RECURSIVE FindIndexFrom(_, _, _)
\* Array.prototype.findIndex: the first 0-based index k >= from with
\* Pred[k], or -1; Pred is a function on 0..Len(array)-1
FindIndexFrom(array, Pred, from) ==
    IF from >= Len(array) THEN -1
    ELSE IF Pred[from] THEN from
    ELSE FindIndexFrom(array, Pred, from + 1)

\* jumps.findIndex((jump) => jump < max), then the fallback to the last entry
LowerJumpIndex(max, js) ==
    LET found == FindIndexFrom(js, [k \in 0..(Len(js) - 1) |-> At(js, k) < max], 0)
    IN  IF found >= 0 THEN found ELSE Len(js) - 1

\* the condition of the margin loop; jumps[k] with k < 0 is undefined, the
\* subtraction is then NaN and the comparison false
LowerMarginStep(min, max, js, jumpIndex, margin) ==
    /\ jumpIndex - margin - 1 < Len(js)
    /\ Defined(js, jumpIndex - margin - 1)
    /\ max - JsRem(max, At(js, jumpIndex)) - At(js, jumpIndex - margin - 1) > min

RECURSIVE LowerMarginLoop(_, _, _, _, _, _)
\* for (let i = 0; i < pad - iteration; ++i) { if (...) margin = margin + 1 }
\* `left` is the number of iterations still to run
LowerMarginLoop(left, min, max, js, jumpIndex, margin) ==
    IF left <= 0 THEN margin
    ELSE LowerMarginLoop(left - 1, min, max, js, jumpIndex,
             IF LowerMarginStep(min, max, js, jumpIndex, margin)
             THEN margin + 1 ELSE margin)

findLowerValuesFor(min, max, iteration, pad, js) ==
    LET jumpIndex == LowerJumpIndex(max, js)
        margin == LowerMarginLoop(pad - iteration, min, max, js, jumpIndex, 0)
        jump == At(js, jumpIndex)
    IN  IF iteration <= 0
        THEN IF JsRem(max, jump) = 0
             THEN IF margin # 0
                  THEN max - jump - At(js, jumpIndex - margin)
                  ELSE max - jump
             ELSE IF margin # 0
                  THEN max - JsRem(max, jump) - At(js, jumpIndex - margin)
                  ELSE max - JsRem(max, jump)
        ELSE max - At(js, jumpIndex - margin)

---------------------------------------------------------------------------
(* findLargerValuesFor *)

\* min - (min % jump) + jump
RoundUp(min, jump) == min - JsRem(min, jump) + jump

\* jumps.findIndex((jump) => jump < max && min - (min % jump) + jump < max),
\* then the fallback to the last entry
LargerJumpIndex(min, max, js) ==
    LET found == FindIndexFrom(js,
                     [k \in 0..(Len(js) - 1) |->
                         At(js, k) < max /\ RoundUp(min, At(js, k)) < max], 0)
    IN  IF found >= 0 THEN found ELSE Len(js) - 1

RECURSIVE LargerRefineLoop(_, _, _, _, _)
\* for (let i = 0; i < iteration; ++i) { if (...) jumpIndex = jumpIndex + 1 }
LargerRefineLoop(left, min, max, js, jumpIndex) ==
    IF left <= 0 THEN jumpIndex
    ELSE LargerRefineLoop(left - 1, min, max, js,
             IF /\ jumpIndex + 1 < Len(js)
                /\ RoundUp(min, At(js, jumpIndex + 1)) < max
             THEN jumpIndex + 1 ELSE jumpIndex)

findLargerValuesFor(min, max, iteration, js) ==
    LET jumpIndex == LargerRefineLoop(iteration, min, max, js, LargerJumpIndex(min, max, js))
        jump == At(js, jumpIndex)
    IN  IF JsRem(min, jump) = 0 THEN min + jump ELSE RoundUp(min, jump)

---------------------------------------------------------------------------
(* addPage *)

\* lastItem === gapSymbol && secondLastItem === page - 2
CanCollapse(array, p, gapSymbol) ==
    /\ Defined(array, Len(array) - 1)
    /\ At(array, Len(array) - 1) = GapToken(gapSymbol)
    /\ Defined(array, Len(array) - 2)
    /\ At(array, Len(array) - 2) = PageToken(p - 2)

\* (pagination[i] as number) + 1 !== pagination[i + 1]: a string plus 1 is a
\* string, which is never equal to a token of the array built here
Discontinuity(array, i) ==
    \/ ~IsNumber(At(array, i))
    \/ At(array, i + 1) # PageToken(At(array, i).page + 1)

RECURSIVE FindGapAt(_, _)
\* the backward scan of lines 129-135, from index i down to 0
FindGapAt(array, i) ==
    IF i < 0 THEN -1
    ELSE IF Discontinuity(array, i) THEN i + 1
    ELSE FindGapAt(array, i - 1)

RECURSIVE ShiftRight(_, _, _)
\* for (let i = 0; i < length - gapAt - 2; ++i)
\*     pagination[length - 2 - i] = pagination[length - 3 - i]
\* from iteration i on
ShiftRight(array, gapAt, i) ==
    IF i >= Len(array) - gapAt - 2 THEN array
    ELSE ShiftRight([array EXCEPT ![Len(array) - 2 - i + 1] = At(array, Len(array) - 3 - i)],
                    gapAt, i + 1)

\* the re-scan made after a collapse (lines 129-142)
ReopenGap(array, p, gapSymbol) ==
    LET gapAt == FindGapAt(array, Len(array) - 2)
    IN  IF gapAt >= 0
        THEN [ShiftRight(Append(array, PageToken(p)), gapAt, 0)
                 EXCEPT ![gapAt + 1] = GapToken(gapSymbol)]
        ELSE array

\* mutant of RescanPosition: the re-scan is made for a negative tag only
RescanPositionNegative(position) == position < 0

\* position < 1: the re-scan is made
RescanPosition(position) == position < 1

\* lines 122-143: the gap is replaced by page - 1 and page is pushed
Collapse(array, p, position, gapSymbol) ==
    LET closed == Append([array EXCEPT ![Len(array)] = PageToken(p - 1)], PageToken(p))
    IN  IF RescanPosition(position) THEN ReopenGap(closed, p, gapSymbol) ELSE closed

\* lines 148-151: pagination[1] === gapSymbol && pagination[2] === 3
FixSmallGap(array, gapSymbol) ==
    IF /\ Defined(array, 1) /\ At(array, 1) = GapToken(gapSymbol)
       /\ Defined(array, 2) /\ At(array, 2) = PageToken(3)
    THEN [array EXCEPT ![2] = PageToken(2)]
    ELSE array

\* mutant of addPage: the page is pushed even when it is the last item
addPageNoDedup(array, p, position, gapSymbol) ==
    FixSmallGap(
        IF CanCollapse(array, p, gapSymbol)
        THEN Collapse(array, p, position, gapSymbol)
        ELSE Append(array, PageToken(p)),
        gapSymbol)

\* the array after addPage(pagination, page, position, gapSymbol)
addPage(array, p, position, gapSymbol) ==
    FixSmallGap(
        IF CanCollapse(array, p, gapSymbol)
        THEN Collapse(array, p, position, gapSymbol)
        ELSE IF ~Defined(array, Len(array) - 1) \/ At(array, Len(array) - 1) # PageToken(p)
        THEN Append(array, PageToken(p))
        ELSE array,
        gapSymbol)

---------------------------------------------------------------------------
(* The options of the call and what generatePagination destructures from them *)

\* pad = DEFAULT_PAD, gapSymbol = DEFAULT_GAP: the default replaces undefined
HasPad == "pad" \in DOMAIN options
HasGapSymbol == "gapSymbol" \in DOMAIN options
HasJumpValues == "jumpValues" \in DOMAIN options
PadOption == IF HasPad THEN options.pad ELSE Num(DEFAULT_PAD)
gapSymbol == IF HasGapSymbol THEN options.gapSymbol ELSE DEFAULT_GAP

\* the validated numbers, as integers
current == IntValue(options.current)
max == IntValue(options.max)
pad == IntValue(PadOption)

\* mutant of minPagesForComplex: two slots per pad instead of four
minPagesForComplexNarrow == 7 + pad * 2

minPagesForComplex == 7 + pad * 4

\* Array.from({ length: max }, (_, i) => i + 1)
SimplePages(n) == [i \in 1..n |-> PageToken(i)]

---------------------------------------------------------------------------
(* The branches of one iteration of the loop of generatePaginationArray *)

\* mutant of IsAlwaysShown: the last page is not forced
IsAlwaysShownNoMax(p) == p = 1 \/ p = current

\* page === 1 || page === max || page === current
IsAlwaysShown(p) == p = 1 \/ p = max \/ p = current

\* mutant of IsLeftRegion: a gap symbol already emitted is not looked for
IsLeftRegionNoGapTest(p, array) ==
    /\ p < current
    /\ Len(array) < pad + 2
    /\ pad > 0

\* page < current && pagination.indexOf(gapSymbol) < 0 &&
\* pagination.length < pad + 2 && pad > 0
IsLeftRegion(p, array) ==
    /\ p < current
    /\ ~Includes(array, GapToken(gapSymbol))
    /\ Len(array) < pad + 2
    /\ pad > 0

\* mutant of KeepLeftAnchor: values up to 1 are kept too
KeepLeftAnchorAny(value, array) == ~Includes(array, PageToken(value))

\* value > 1 && pagination.indexOf(value) < 0
KeepLeftAnchor(value, array) == value > 1 /\ ~Includes(array, PageToken(value))

RECURSIVE LeftAnchors(_, _, _, _)
\* the loop of lines 205-210 from iteration i on: tempPages at its end
LeftAnchors(i, value, tempPages, array) ==
    IF i >= pad + 1 THEN tempPages
    ELSE LET next == findLowerValuesFor(1, value, i, pad, jumps)
         IN  LeftAnchors(i + 1, next,
                         IF KeepLeftAnchor(next, array) THEN Append(tempPages, next) ELSE tempPages,
                         array)

RECURSIVE AddPages(_, _, _)
\* for (const p of tempPages) addPage(pagination, p, -1, gapSymbol)
AddPages(array, tempPages, position) ==
    IF tempPages = <<>> THEN array
    ELSE AddPages(addPage(array, Head(tempPages), position, gapSymbol), Tail(tempPages), position)

\* lines 202-217: the anchors, then the gap symbol
LeftRegionPages(array) ==
    Append(AddPages(array, Reverse(LeftAnchors(0, current - pad - 1, <<>>, array)), -1),
           GapToken(gapSymbol))

\* mutant of IsMiddleRange: the window starts one page late
IsMiddleRangeExclusive(p) == p > current - pad /\ p <= current + pad

\* page >= current - pad && page <= current + pad
IsMiddleRange(p) == p >= current - pad /\ p <= current + pad

\* mutant of IsRightGap: the gap is opened one page late
IsRightGapLate(p) == current + pad + 2 = p /\ p # max - 1

\* current + pad + 1 === page && page !== max - 1
IsRightGap(p) == current + pad + 1 = p /\ p # max - 1

\* mutant of HasBudget: one more anchor is let in
HasBudgetInclusive(array) == Len(array) <= minPagesForComplex - 1

\* pagination.length < minPagesForComplex - 1
HasBudget(array) == Len(array) < minPagesForComplex - 1

\* lines 238-246: the upper anchor, or the page itself
RightAnchorPages(p, array) ==
    LET lastPage == At(array, Len(array) - 1)
        baseValue == IF lastPage = GapToken(gapSymbol) THEN p ELSE lastPage.page
        value == findLargerValuesFor(baseValue, max, minPagesForComplex - Len(array) - 2, jumps)
    IN  IF value < max
        THEN addPage(array, value, 1, gapSymbol)
        ELSE addPage(array, p, 1, gapSymbol)

---------------------------------------------------------------------------
(* Requests *)

\* the numbers lo..hi and the non-integer 3/2
NumberInputs(lo, hi) == {Num(n) : n \in lo..hi} \cup {<<3, 2>>}

CustomGap == "---"

ValidJumpInputs ==
    { <<Num(100)>>, <<Num(2)>>, <<Num(7), Num(3)>>, <<Num(4), Num(2), Num(1)>> }

InvalidJumpInputs ==
    { <<>>, <<Num(10), Num(100), Num(1000)>>, <<Num(100), Num(-10), Num(1)>>,
      <<Num(5), Num(5)>>, <<Num(10), <<3, 2>>>>, <<Num(0), Num(5)>> }

JumpInputs == ValidJumpInputs \cup InvalidJumpInputs

Requests(currents, maxes, pads, jumpLists) ==
    { [current |-> c, max |-> m] @@ p @@ g @@ j :
        c \in currents, m \in maxes,
        p \in {<<>>} \cup {[pad |-> x] : x \in pads},
        g \in {<<>>, [gapSymbol |-> CustomGap]},
        j \in {<<>>} \cup {[jumpValues |-> js] : js \in jumpLists} }

Init ==
    /\ options \in Requests(NumberInputs(-1, MaxPages), NumberInputs(-1, MaxPages),
                            NumberInputs(-1, MaxPad), JumpInputs)
    /\ pc = "validateInput"
    /\ error = ""
    /\ jumps = <<>>
    /\ pagination = <<>>
    /\ page = 0
    /\ result = <<>>

---------------------------------------------------------------------------
(* generatePagination *)

\* line 268
ValidateInput ==
    /\ pc = "validateInput"
    /\ LET thrown == validateInput(options.current, options.max, PadOption)
       IN  /\ error' = thrown
           /\ pc' = IF thrown = "" THEN "jumps" ELSE "thrown"
    /\ UNCHANGED <<options, jumps, pagination, page, result>>

\* lines 270-273
ValidateJumps ==
    /\ pc = "jumps"
    /\ IF HasJumpValues
       THEN LET thrown == validateJumpValues(options.jumpValues)
            IN  /\ error' = thrown
                /\ pc' = IF thrown = "" THEN "generate" ELSE "thrown"
                /\ jumps' = IF thrown = ""
                            THEN [i \in 1..Len(options.jumpValues) |-> IntValue(options.jumpValues[i])]
                            ELSE jumps
       ELSE /\ jumps' = DEFAULT_JUMP_VALUES
            /\ pc' = "generate"
            /\ UNCHANGED error
    /\ UNCHANGED <<options, pagination, page, result>>

\* lines 185-187
SimpleMode ==
    /\ pc = "generate"
    /\ max < minPagesForComplex
    /\ pagination' = SimplePages(max)
    /\ pc' = "return"
    /\ UNCHANGED <<options, error, jumps, page, result>>

\* lines 189-192
EnterLoop ==
    /\ pc = "generate"
    /\ ~(max < minPagesForComplex)
    /\ pagination' = <<>>
    /\ page' = 1
    /\ pc' = "loop"
    /\ UNCHANGED <<options, error, jumps, result>>

InLoop == pc = "loop" /\ page <= max

Continue ==
    /\ page' = page + 1
    /\ UNCHANGED <<options, pc, error, jumps, result>>

\* lines 194-197
AlwaysShown ==
    /\ InLoop
    /\ IsAlwaysShown(page)
    /\ pagination' = addPage(pagination, page, 0, gapSymbol)
    /\ Continue

\* lines 200-220
LeftRegion ==
    /\ InLoop
    /\ ~IsAlwaysShown(page)
    /\ IsLeftRegion(page, pagination)
    /\ pagination' = LeftRegionPages(pagination)
    /\ Continue

\* lines 223-226
MiddleRange ==
    /\ InLoop
    /\ ~IsAlwaysShown(page)
    /\ ~IsLeftRegion(page, pagination)
    /\ IsMiddleRange(page)
    /\ pagination' = addPage(pagination, page, 0, gapSymbol)
    /\ Continue

\* lines 229-234
RightGap ==
    /\ InLoop
    /\ ~IsAlwaysShown(page)
    /\ ~IsLeftRegion(page, pagination)
    /\ ~IsMiddleRange(page)
    /\ page > current
    /\ IsRightGap(page)
    /\ pagination' = Append(pagination, GapToken(gapSymbol))
    /\ Continue

\* lines 237-248
RightAnchor ==
    /\ InLoop
    /\ ~IsAlwaysShown(page)
    /\ ~IsLeftRegion(page, pagination)
    /\ ~IsMiddleRange(page)
    /\ page > current
    /\ ~IsRightGap(page)
    /\ HasBudget(pagination)
    /\ pagination' = RightAnchorPages(page, pagination)
    /\ Continue

\* an iteration that reaches the end of the loop body: nothing is added
SkipPage ==
    /\ InLoop
    /\ ~IsAlwaysShown(page)
    /\ ~IsLeftRegion(page, pagination)
    /\ ~IsMiddleRange(page)
    /\ ~(page > current /\ (IsRightGap(page) \/ HasBudget(pagination)))
    /\ UNCHANGED pagination
    /\ Continue

\* line 252: the loop ends
LoopExit ==
    /\ pc = "loop"
    /\ ~(page <= max)
    /\ pc' = "return"
    /\ UNCHANGED <<options, error, jumps, pagination, page, result>>

\* hasPrevious: current > 1
hasPrevious == current > 1

\* mutant of hasNext: the last page still has a next page
hasNextInclusive == current <= max

\* hasNext: current < max
hasNext == current < max

\* the object of lines 277-283
PaginationResult(pages) ==
    [pages |-> pages,
     hasPrevious |-> hasPrevious,
     hasNext |-> hasNext,
     totalPages |-> max,
     currentPage |-> current]

\* lines 277-283
Return ==
    /\ pc = "return"
    /\ result' = PaginationResult(pagination)
    /\ pc' = "done"
    /\ UNCHANGED <<options, error, jumps, pagination, page>>

Next ==
    \/ ValidateInput
    \/ ValidateJumps
    \/ SimpleMode
    \/ EnterLoop
    \/ AlwaysShown
    \/ LeftRegion
    \/ MiddleRange
    \/ RightGap
    \/ RightAnchor
    \/ SkipPage
    \/ LoopExit
    \/ Return

Spec == Init /\ [][Next]_vars

---------------------------------------------------------------------------
(* The documented calls: the README's Quick Start and its small dataset *)

ReadmeRequests ==
    { [current |-> Num(1250), max |-> Num(50000)],
      [current |-> Num(3), max |-> Num(8)] }

InitReadme ==
    /\ options \in ReadmeRequests
    /\ pc = "validateInput"
    /\ error = ""
    /\ jumps = <<>>
    /\ pagination = <<>>
    /\ page = 0
    /\ result = <<>>

SpecReadme == InitReadme /\ [][Next]_vars

---------------------------------------------------------------------------
(* Vocabulary of the properties *)

\* the call has returned a result
Returned == pc = "done"

\* the call has thrown
Thrown == pc = "thrown"

\* the request as the caller wrote it, read without the program's operators
ReqIsPositiveInteger(x) == x[1] = x[2] * (x[1] \div x[2]) /\ x[1] >= x[2]
ReqIsNonNegativeInteger(x) == x[1] = x[2] * (x[1] \div x[2]) /\ x[1] >= 0
ReqCurrentOk == ReqIsPositiveInteger(options.current)
ReqMaxOk == ReqIsPositiveInteger(options.max)
ReqOrderOk == options.current[1] \div options.current[2] <= options.max[1] \div options.max[2]
ReqPadOk == ("pad" \in DOMAIN options) => ReqIsNonNegativeInteger(options.pad)
ReqScalarsOk == ReqCurrentOk /\ ReqMaxOk /\ ReqOrderOk /\ ReqPadOk
ReqJumpsSupplied == "jumpValues" \in DOMAIN options
ReqJumpsNonEmpty == options.jumpValues # <<>>
ReqJumpsPositive ==
    \A i \in 1..Len(options.jumpValues) : ReqIsPositiveInteger(options.jumpValues[i])
ReqJumpsStrictlyDescending ==
    \A i \in 1..(Len(options.jumpValues) - 1) :
        options.jumpValues[i][1] * options.jumpValues[i + 1][2]
            > options.jumpValues[i + 1][1] * options.jumpValues[i][2]
ReqJumpsOk ==
    ReqJumpsSupplied => (ReqJumpsNonEmpty /\ ReqJumpsPositive /\ ReqJumpsStrictlyDescending)

\* the numbers of a valid request
ReqCurrent == options.current[1]
ReqMax == options.max[1]
ReqPad == IF "pad" \in DOMAIN options THEN options.pad[1] ELSE 2
ReqGap == IF "gapSymbol" \in DOMAIN options THEN options.gapSymbol ELSE "..."
ReqComplex == ReqMax >= 7 + 4 * ReqPad

Shown(n) == \E i \in 1..Len(result.pages) : result.pages[i] = [page |-> n]
WindowLow == IF ReqCurrent - ReqPad > 1 THEN ReqCurrent - ReqPad ELSE 1
WindowHigh == IF ReqCurrent + ReqPad < ReqMax THEN ReqCurrent + ReqPad ELSE ReqMax

\* the window WindowLow..WindowHigh stands in pages from index k on
WindowAt(k) ==
    /\ k >= 1
    /\ k + (WindowHigh - WindowLow) <= Len(result.pages)
    /\ \A n \in WindowLow..WindowHigh : result.pages[k + (n - WindowLow)] = [page |-> n]

---------------------------------------------------------------------------
(* Properties *)

\* C1: in every returned result the near-current window
\* max(1,current-pad)..min(max,current+pad) is one contiguous run of
\* consecutive page numbers of pages, so current is a numeric token
C1_WindowContiguous ==
    Returned => \E k \in 1..Len(result.pages) : WindowAt(k)

\* C1 happens: complex mode, custom jumps with no entry smaller than max,
\* window clipped on neither side, and an anchor stands left of the window
C1_Witness ==
    /\ Returned /\ ReqComplex
    /\ ReqJumpsSupplied /\ jumps = <<100>>
    /\ WindowLow > 2 /\ WindowHigh < ReqMax - 1
    /\ ReqPad = 2

\* C2: pages is non-empty, starts with the number 1 and ends with the number max
C2_FirstAndLast ==
    Returned =>
        /\ Len(result.pages) >= 1
        /\ result.pages[1] = [page |-> 1]
        /\ result.pages[Len(result.pages)] = [page |-> ReqMax]

\* C2 happens: complex mode with current strictly inside and the budget of
\* the right side used up before max
C2_Witness ==
    /\ Returned /\ ReqComplex
    /\ ReqCurrent > 1 /\ ReqCurrent < ReqMax
    /\ Len(result.pages) >= 6 + 4 * ReqPad
    /\ result.pages[Len(result.pages)] = [page |-> ReqMax]

\* C3: simple mode, max < 7 + 4*pad: pages is exactly 1, 2, ..., max
C3_SimpleMode ==
    (Returned /\ ReqMax < 7 + 4 * ReqPad) =>
        /\ Len(result.pages) = ReqMax
        /\ \A i \in 1..ReqMax : result.pages[i] = [page |-> i]

\* C3 happens: the largest simple max for pad 2, custom gap symbol and jumps
C3_Witness ==
    /\ Returned
    /\ ReqPad = 2 /\ ReqMax = 14 /\ ReqCurrent = 9
    /\ ReqGap = "---" /\ ReqJumpsSupplied
    /\ Len(result.pages) = 14

\* C4: validation raises exactly one error, the one of the first violated
\* check in the order current, max, current <= max, pad, and only then the
\* supplied jumpValues; nothing is produced when it raises; a request that
\* violates no check never raises
C4_ValidationOrder ==
    /\ pc = "validateInput" => error = ""
    /\ pc # "validateInput" =>
         IF ~ReqCurrentOk
         THEN Thrown /\ error = "Current page must be a positive integer"
         ELSE IF ~ReqMaxOk
         THEN Thrown /\ error = "Max pages must be a positive integer"
         ELSE IF ~ReqOrderOk
         THEN Thrown /\ error = "Current page cannot be greater than max pages"
         ELSE IF ~ReqPadOk
         THEN Thrown /\ error = "Pad must be a non-negative integer"
         ELSE /\ pc = "jumps" => error = ""
              /\ Thrown =>
                   /\ ~ReqJumpsOk
                   /\ error \in { "Jump values must be a non-empty array",
                                  "All jump values must be positive integers",
                                  "Jump values must be sorted in descending order" }
    /\ Thrown <=> error # ""
    /\ Thrown => result = <<>> /\ pagination = <<>> /\ ~(ReqScalarsOk /\ ReqJumpsOk)

\* C4 happens: current above max and pad invalid and jumpValues invalid:
\* the order error is the one raised
C4_Witness ==
    /\ Thrown
    /\ ReqCurrentOk /\ ReqMaxOk /\ ~ReqOrderOk /\ ~ReqPadOk
    /\ ReqJumpsSupplied /\ ~ReqJumpsOk
    /\ error = "Current page cannot be greater than max pages"

\* C5: with current, max and pad valid and jumpValues supplied, the error is
\* 'non-empty array' for the empty list, else 'positive integers' when an
\* element is no positive integer, else 'descending order' when an element
\* is not greater than its successor, and there is no error otherwise
C5_JumpValidation ==
    (ReqScalarsOk /\ ReqJumpsSupplied /\ pc \notin {"validateInput", "jumps"}) =>
        IF ~ReqJumpsNonEmpty
        THEN Thrown /\ error = "Jump values must be a non-empty array"
        ELSE IF ~ReqJumpsPositive
        THEN Thrown /\ error = "All jump values must be positive integers"
        ELSE IF ~ReqJumpsStrictlyDescending
        THEN Thrown /\ error = "Jump values must be sorted in descending order"
        ELSE ~Thrown /\ error = ""

\* C5 happens: equal neighbours are rejected as not descending
C5_Witness ==
    /\ Thrown
    /\ ReqScalarsOk /\ ReqJumpsSupplied
    /\ options.jumpValues = <<<<5, 1>>, <<5, 1>>>>
    /\ error = "Jump values must be sorted in descending order"

\* C6: no two adjacent tokens of pages are equal (neither two equal page
\* numbers nor two gap symbols)
C6_NoEqualNeighbours ==
    Returned => \A i \in 1..(Len(result.pages) - 1) : result.pages[i] # result.pages[i + 1]

GapCount == Cardinality({i \in 1..Len(result.pages) : result.pages[i] = [gap |-> ReqGap]})

\* C6 happens: a complex result with a gap on both sides of current
C6_Witness ==
    /\ Returned /\ ReqComplex
    /\ GapCount = 2
    /\ ReqCurrent > 1 /\ ReqCurrent < ReqMax

\* C7: hasPrevious = (current > 1), hasNext = (current < max),
\* totalPages = max, currentPage = current
C7_Metadata ==
    Returned =>
        /\ result.hasPrevious = (ReqCurrent > 1)
        /\ result.hasNext = (ReqCurrent < ReqMax)
        /\ result.totalPages = ReqMax
        /\ result.currentPage = ReqCurrent

\* C7 happens: complex mode on the last page, custom gap symbol and jumps
C7_Witness ==
    /\ Returned /\ ReqComplex
    /\ ReqCurrent = ReqMax /\ ReqCurrent > 1
    /\ ReqGap = "---" /\ ReqJumpsSupplied
    /\ result.hasPrevious /\ ~result.hasNext

\* C8 as stated: in complex mode the page current-pad-1 (when > 1) and the
\* page current+pad+1 (when < max) do not occur in pages
C8_Original ==
    (Returned /\ ReqComplex) =>
        /\ ReqCurrent - ReqPad - 1 > 1 => ~Shown(ReqCurrent - ReqPad - 1)
        /\ ReqCurrent + ReqPad + 1 < ReqMax => ~Shown(ReqCurrent + ReqPad + 1)

\* C8 amended: in complex mode the page current-pad-1 (when > 1) occurs in
\* pages only if current-pad-2 occurs too, and the page current+pad+1 (when
\* < max) occurs only if current+pad+2 occurs too: a page next to the window
\* is shown only where it is the single page missing between two shown pages
C8_NextToWindow ==
    (Returned /\ ReqComplex) =>
        /\ (ReqCurrent - ReqPad - 1 > 1 /\ ~Shown(ReqCurrent - ReqPad - 2))
               => ~Shown(ReqCurrent - ReqPad - 1)
        /\ (ReqCurrent + ReqPad + 1 < ReqMax /\ ~Shown(ReqCurrent + ReqPad + 2))
               => ~Shown(ReqCurrent + ReqPad + 1)

\* C8 happens: both neighbours of the window exist and neither is shown
C8_Witness ==
    /\ Returned /\ ReqComplex
    /\ ReqCurrent - ReqPad - 1 > 1 /\ ~Shown(ReqCurrent - ReqPad - 2)
    /\ ReqCurrent + ReqPad + 1 < ReqMax /\ ~Shown(ReqCurrent + ReqPad + 2)
    /\ ~Shown(ReqCurrent - ReqPad - 1) /\ ~Shown(ReqCurrent + ReqPad + 1)

\* C9: every token of pages is the gap symbol or an integer p, 1 <= p <= max
C9_TokensInRange ==
    Returned =>
        \A i \in 1..Len(result.pages) :
            \/ result.pages[i] = [gap |-> ReqGap]
            \/ \E n \in 1..ReqMax : result.pages[i] = [page |-> n]

\* C9 happens: complex mode with jumps that have no entry smaller than max,
\* so both anchor searches fall back to the last entry
C9_Witness ==
    /\ Returned /\ ReqComplex
    /\ ReqJumpsSupplied /\ jumps = <<100>>
    /\ ReqCurrent - ReqPad > 2 /\ ReqCurrent + ReqPad < ReqMax - 2
    /\ ReqPad >= 1

\* C10: the length of pages is at most 7 + 4*pad
C10_LengthBound ==
    Returned => Len(result.pages) <= 7 + 4 * ReqPad

\* C10 happens: a complex result of exactly 7 + 4*pad tokens for a max above it
C10_Witness ==
    /\ Returned
    /\ ReqMax > 7 + 4 * ReqPad
    /\ Len(result.pages) = 7 + 4 * ReqPad

\* C11: with all defaults, {current: 1250, max: 50000} returns exactly the
\* 14 tokens 1, 250, 500, 1000, gap, 1248..1252, gap, 5000, 10000, 50000
C11_QuickStart ==
    (Returned /\ options = [current |-> <<1250, 1>>, max |-> <<50000, 1>>]) =>
        result.pages = << [page |-> 1], [page |-> 250], [page |-> 500], [page |-> 1000],
                          [gap |-> "..."],
                          [page |-> 1248], [page |-> 1249], [page |-> 1250],
                          [page |-> 1251], [page |-> 1252],
                          [gap |-> "..."],
                          [page |-> 5000], [page |-> 10000], [page |-> 50000] >>

\* C12: pages never holds a gap symbol between the page numbers n and n + 2
C12_OnePageGapsClosed ==
    Returned =>
        ~\E i \in 1..(Len(result.pages) - 2) :
            /\ "page" \in DOMAIN result.pages[i]
            /\ result.pages[i + 1] = [gap |-> ReqGap]
            /\ result.pages[i + 2] = [page |-> result.pages[i].page + 2]

\* C13: the numeric tokens of pages are strictly increasing from left to right
C13_StrictlyIncreasing ==
    Returned =>
        \A i, j \in 1..Len(result.pages) :
            (i < j /\ "page" \in DOMAIN result.pages[i] /\ "page" \in DOMAIN result.pages[j])
                => result.pages[i].page < result.pages[j].page

\* the index of the page number n in pages (n is shown)
IndexOfPage(n) == CHOOSE i \in 1..Len(result.pages) : result.pages[i] = [page |-> n]

\* C14: in complex mode, if current-pad > 1 the token before the page
\* current-pad is the gap symbol or the number current-pad-1, and if
\* current+pad < max the token after the page current+pad is the gap symbol
\* or the number current+pad+1
C14_OmissionMarked ==
    (Returned /\ ReqComplex) =>
        /\ ReqCurrent - ReqPad > 1 =>
             /\ Shown(ReqCurrent - ReqPad)
             /\ IndexOfPage(ReqCurrent - ReqPad) > 1
             /\ result.pages[IndexOfPage(ReqCurrent - ReqPad) - 1]
                    \in {[gap |-> ReqGap], [page |-> ReqCurrent - ReqPad - 1]}
        /\ ReqCurrent + ReqPad < ReqMax =>
             /\ Shown(ReqCurrent + ReqPad)
             /\ IndexOfPage(ReqCurrent + ReqPad) < Len(result.pages)
             /\ result.pages[IndexOfPage(ReqCurrent + ReqPad) + 1]
                    \in {[gap |-> ReqGap], [page |-> ReqCurrent + ReqPad + 1]}

\* the number of gap symbols among the tokens lo..hi of the working sequence
GapsBetween(lo, hi) ==
    Cardinality({i \in lo..hi : pagination[i] = [gap |-> ReqGap]})

\* the index of the token current in the working sequence, 0 before it is added
CurrentAt ==
    IF \E i \in 1..Len(pagination) : pagination[i] = [page |-> ReqCurrent]
    THEN CHOOSE i \in 1..Len(pagination) : pagination[i] = [page |-> ReqCurrent]
    ELSE 0

\* C15: at every point of the construction and in the result, the working
\* sequence holds at most one gap symbol before the token current and at
\* most one after it
C15_OneGapPerSide ==
    (pc \in {"loop", "return", "done"}) =>
        /\ IF CurrentAt = 0
           THEN GapsBetween(1, Len(pagination)) <= 1
           ELSE /\ GapsBetween(1, CurrentAt - 1) <= 1
                /\ GapsBetween(CurrentAt + 1, Len(pagination)) <= 1
        /\ Returned => result.pages = pagination

\* C15 happens: the left gap was collapsed and re-opened further left (the
\* page current-pad-1 is shown behind a gap), and a right gap stands too
C15_Witness ==
    /\ Returned /\ ReqComplex
    /\ ReqCurrent - ReqPad - 1 > 2
    /\ Shown(ReqCurrent - ReqPad - 1)
    /\ GapsBetween(1, CurrentAt - 1) = 1
    /\ GapsBetween(CurrentAt + 1, Len(pagination)) = 1

\* the working sequence ends with the page number n and the gap symbol
EndsWithGapAfter(n) ==
    /\ Len(pagination) >= 2
    /\ pagination[Len(pagination)] = [gap |-> ReqGap]
    /\ pagination[Len(pagination) - 1] = [page |-> n]

\* the working sequence with its last token, the gap, replaced by p - 1 and
\* p appended, every earlier token unchanged
ClosedOnly(p) ==
    [i \in 1..(Len(pagination) + 1) |->
        IF i < Len(pagination) THEN pagination[i]
        ELSE IF i = Len(pagination) THEN [page |-> p - 1]
        ELSE [page |-> p]]

\* the places of seq where a token is not followed by the next page number
Breaks(seq) ==
    {i \in 1..(Len(seq) - 1) :
        ~("page" \in DOMAIN seq[i] /\ seq[i + 1] = [page |-> seq[i].page + 1])}

LastBreak(seq) == CHOOSE k \in Breaks(seq) : \A i \in Breaks(seq) : i <= k

\* seq with `token` inserted behind its k-th token
InsertAfter(seq, k, token) ==
    [i \in 1..(Len(seq) + 1) |->
        IF i <= k THEN seq[i] ELSE IF i = k + 1 THEN token ELSE seq[i - 1]]

\* seq with a gap re-opened at its last break, if it has one; a gap that
\* lands between 1 and 3 is rewritten to 2
Reopened(seq) ==
    IF Breaks(seq) = {} THEN seq
    ELSE InsertAfter(seq, LastBreak(seq),
                     IF LastBreak(seq) = 1 /\ seq[2] = [page |-> 3]
                     THEN [page |-> 2] ELSE [gap |-> ReqGap])

\* C16 as stated: a collapse under the tag 0 (boundary or near-current page)
\* or +1 (right anchor) only replaces the gap with p - 1 and appends p
C16_Original ==
    [][ /\ ((AlwaysShown \/ MiddleRange) /\ EndsWithGapAfter(page - 2))
            => pagination' = ClosedOnly(page)
        /\ \A n \in 1..ReqMax :
             (RightAnchor /\ EndsWithGapAfter(n))
                => \/ pagination' = ClosedOnly(n + 2)
                   \/ \E x \in 1..ReqMax : pagination' = Append(pagination, [page |-> x])
      ]_vars

\* C16 amended: the re-scan is made for every tag below 1, so a collapse
\* under the tag 0 re-opens a gap at the nearest remaining discontinuity;
\* only under the tag +1 does the collapse leave every earlier token
\* unchanged and insert no gap symbol
C16_RescanBelowOne ==
    [][ /\ ((AlwaysShown \/ MiddleRange) /\ EndsWithGapAfter(page - 2))
            => pagination' = Reopened(ClosedOnly(page))
        /\ \A n \in 1..ReqMax :
             (RightAnchor /\ EndsWithGapAfter(n))
                => \/ pagination' = ClosedOnly(n + 2)
                   \/ \E x \in 1..ReqMax : pagination' = Append(pagination, [page |-> x])
      ]_vars

\* C16 happens: the first page of the window has just collapsed the left gap
\* under the tag 0, and the gap stands re-opened further left
C16_Witness ==
    /\ pc = "loop"
    /\ page - 1 = ReqCurrent - ReqPad
    /\ Len(pagination) >= 5
    /\ pagination[Len(pagination)] = [page |-> page - 1]
    /\ pagination[Len(pagination) - 1] = [page |-> page - 2]
    /\ pagination[Len(pagination) - 2] = [page |-> page - 3]
    /\ \E i \in 2..(Len(pagination) - 3) : pagination[i] = [gap |-> ReqGap]

=============================================================================
